---- MODULE Spec2Model ----
(***************************************************************************)
(* Asteroid hazard enrichment and ranking of the Astro-Nuts dashboard      *)
(* (src/Hackathlone-Frontend-Astro-Nuts/src/api/asteroid.ts).              *)
(*                                                                         *)
(* Number representation.  The source works on IEEE doubles; the model     *)
(* uses integers in fixed-point units chosen so that every threshold of    *)
(* the source is an integer:                                               *)
(*   diameterKm      tenths of a kilometre   (0.5 km = 5, 1 km = 10,       *)
(*                                            10 km = 100)                 *)
(*   velocityKmS     kilometres per second                                 *)
(*   missDistanceAU  hundredths of an AU     (0.05 AU = 5, 0.2 AU = 20)    *)
(*   energyMegatons  megatons of TNT, rounded up to the next integer       *)
(*                   (for an integer threshold T, e > T iff ceil(e) > T,   *)
(*                   so every comparison of the source is kept exactly)    *)
(*   crater_km       tenths of a kilometre, rounded up                     *)
(* NaN is a reserved value: arithmetic on it yields NaN and every          *)
(* comparison with it is false, as in JavaScript.  A field that is absent  *)
(* from an object reads as undefined, which behaves as NaN in arithmetic   *)
(* and comparisons and as false in a condition.                            *)
(* Doubles overflow: Infinity is a reserved value above every integer of   *)
(* the model, and two further reserved values stand for finite doubles     *)
(* beyond the integer range, Huge (1e200) and Largest (1e308); the         *)
(* products that overflow on them are worked out where they are used.      *)
(***************************************************************************)
EXTENDS Integers, Sequences, FiniteSets, TLC

VARIABLES
    asteroidData,        \* useState<AsteroidData[]>([])            (line 536)
    maxAsteroids,        \* useState<number>(0)                     (line 532)
    isLoadingAsteroids,  \* useState<boolean>(true)                 (line 537)
    loadError,           \* useState<string | null>(null)           (line 538)
    fetchPc,             \* position of fetchAsteroidData: "unstarted", "awaiting", "done"
    responseBody,        \* the JSON body the data source answered with (<<>> before)
    mounted,             \* App is mounted (rendered by the root, not yet removed)
    requestsIssued,      \* GET /database/asteroids requests sent so far
    requestsInFlight,    \* those of them not yet settled
    showOrbits,          \* useState<boolean>(true)                 (line 531)
    hoveredAsteroid,     \* useState<AsteroidData | null>(null): <<>> or <<record>>
    selectedAsteroid,    \* useState<AsteroidData | null>(null): <<>> or <<record>>
    isGeneratingReport,  \* useState<boolean>(false)                (line 534)
    reportRequests,      \* asteroidIds of the POST /ai/report requests in flight
    isInitialized,       \* useRef(false): the scene has been set up  (line 549)
    asteroidMeshes,      \* useRef({}): map from asteroid id to its mesh
    orbitRings,          \* the children of the scene with userData.isOrbitRing
    currentImpactTrajectory, \* useRef(null): <<>> or <<trajectory>>   (line 542)
    pointer,             \* mouse button over the scene: "up", "down", "dragging"
    callArgs,            \* arguments of the last direct call of an estimator
    callResult           \* [fn |-> name, value |-> result] of that call

vars == <<asteroidData, maxAsteroids, isLoadingAsteroids, loadError, fetchPc,
          responseBody, mounted, requestsIssued, requestsInFlight, showOrbits,
          hoveredAsteroid, selectedAsteroid, isGeneratingReport, reportRequests,
          isInitialized, asteroidMeshes, orbitRings, currentImpactTrajectory,
          pointer, callArgs, callResult>>

\* the state written by fetchAsteroidData
fetchVars == <<asteroidData, maxAsteroids, isLoadingAsteroids, loadError, fetchPc,
               responseBody, requestsIssued, requestsInFlight>>

\* the state written by the controls, the pointer and the report buttons
viewVars == <<showOrbits, hoveredAsteroid, selectedAsteroid, isGeneratingReport,
              reportRequests>>

\* the three.js scene and the refs of App that point into it
sceneVars == <<isInitialized, asteroidMeshes, orbitRings, currentImpactTrajectory,
               pointer>>

appVars == <<fetchVars, mounted, viewVars, sceneVars>>

calcVars == <<callArgs, callResult>>

----------------------------------------------------------------------------
(* Bounds of the model *)

\* longest list of records the data source answers with
MaxRecords == 3

\* longest list the data source answers with while the view is operated
MaxViewRecords == 2

\* longest list the data source answers with while the rings are laid out
MaxRingRecords == 6

----------------------------------------------------------------------------
(* JavaScript numbers *)

NaN == -(2^30)

IsNaN(x) == x = NaN

\* Infinity, the result of a product beyond 1.797e308
Infinity == 2^30 - 1

\* the finite double 1e308: 20 * Largest is Infinity
Largest == 2^30 - 2

\* the finite double 1e200: Huge * 1000 and 20 * Huge are finite, the square
\* and the cube of Huge * 1000 and of Huge * 500 are Infinity
Huge == 2^30 - 3

\* a finite double that the model does not hold as an integer
IsHuge(x) == x = Huge \/ x = Largest

\* a > b and a < b of the source: false as soon as one side is NaN
Gt(a, b) == ~IsNaN(a) /\ ~IsNaN(b) /\ a > b

Lt(a, b) == ~IsNaN(a) /\ ~IsNaN(b) /\ a < b

Ge(a, b) == ~IsNaN(a) /\ ~IsNaN(b) /\ a >= b

Min(a, b) == IF a < b THEN a ELSE b

\* <<floor(x*p/q), (x*p) % q>> for naturals x, p and q > 0, by binary
\* multiplication so that no intermediate value leaves 32 bits
RECURSIVE MulDivRem(_, _, _)
MulDivRem(x, p, q) ==
    IF p = 0 THEN <<0, 0>>
    ELSE LET h  == MulDivRem(x, p \div 2, q)
             r2 == 2 * h[2] + (IF p % 2 = 1 THEN x % q ELSE 0)
             q2 == 2 * h[1] + (IF p % 2 = 1 THEN x \div q ELSE 0)
         IN  <<q2 + (r2 \div q), r2 % q>>

\* ceil(x * p / q) for an integer x and naturals p, q > 0
CeilMulDiv(x, p, q) ==
    IF x >= 0
    THEN LET m == MulDivRem(x, p, q) IN m[1] + (IF m[2] > 0 THEN 1 ELSE 0)
    ELSE -(MulDivRem(-x, p, q)[1])

----------------------------------------------------------------------------
(* Calculation helper functions (lines 130-206) *)

\* megatons = 0.5 * (4/3 * pi * (d_km*1000/2)^3 * 2500) * (v*1000)^2 / 4.184e15
\*          = d_km^3 * v^2 * pi * 2500e15 / (12 * 4.184e15)
\*          = d^3 * v^2 * pi / 20.0832            with d in tenths of a km
\* and pi / 20.0832 = 0.15642888850...
\* On Huge and Largest radiusM ** 3 (line 134) and velocityMS ** 2 (line 137)
\* are Infinity; Infinity * 0 is NaN and Infinity times a positive number is
\* Infinity (line 137).  The model holds no negative Huge.
\* a mutant of calculateImpactEnergy: the factor 0.5 of line 137 is missing
calculateImpactEnergyNoHalf(diameterKm, velocityKmS) ==
    IF IsNaN(diameterKm) \/ IsNaN(velocityKmS) THEN NaN
    ELSE IF IsHuge(diameterKm) THEN (IF velocityKmS = 0 THEN NaN ELSE Infinity)
    ELSE IF IsHuge(velocityKmS) THEN
        (IF diameterKm = 0 THEN NaN ELSE IF diameterKm < 0 THEN -Infinity ELSE Infinity)
    ELSE CeilMulDiv(diameterKm * diameterKm * diameterKm * velocityKmS * velocityKmS,
                    31285778, 100000000)

calculateImpactEnergy(diameterKm, velocityKmS) ==
    IF IsNaN(diameterKm) \/ IsNaN(velocityKmS) THEN NaN
    ELSE IF IsHuge(diameterKm) THEN (IF velocityKmS = 0 THEN NaN ELSE Infinity)
    ELSE IF IsHuge(velocityKmS) THEN
        (IF diameterKm = 0 THEN NaN ELSE IF diameterKm < 0 THEN -Infinity ELSE Infinity)
    ELSE CeilMulDiv(diameterKm * diameterKm * diameterKm * velocityKmS * velocityKmS,
                    15642889, 100000000)

\* a mutant of calculateTorinoScale: the hazardous flag is tested first
calculateTorinoScalePHAFirst(diameterKm, energyMegatons, isPHA, isSentry) ==
    IF isPHA THEN
        IF Gt(energyMegatons, 100000) THEN 3
        ELSE IF Gt(diameterKm, 10) THEN 2
        ELSE 1
    ELSE IF isSentry THEN
        IF Gt(energyMegatons, 1000000) THEN 10
        ELSE IF Gt(energyMegatons, 100000) THEN 9
        ELSE IF Gt(energyMegatons, 10000) THEN 8
        ELSE IF Gt(energyMegatons, 1000) THEN 7
        ELSE IF Gt(diameterKm, 10) THEN 4
        ELSE 3
    ELSE 0

\* a mutant of calculateTorinoScale: >= in place of >
calculateTorinoScaleNonStrict(diameterKm, energyMegatons, isPHA, isSentry) ==
    IF isSentry THEN
        IF Ge(energyMegatons, 1000000) THEN 10
        ELSE IF Ge(energyMegatons, 100000) THEN 9
        ELSE IF Ge(energyMegatons, 10000) THEN 8
        ELSE IF Ge(energyMegatons, 1000) THEN 7
        ELSE IF Ge(diameterKm, 10) THEN 4
        ELSE 3
    ELSE IF isPHA THEN
        IF Ge(energyMegatons, 100000) THEN 3
        ELSE IF Ge(diameterKm, 10) THEN 2
        ELSE 1
    ELSE 0

\* a mutant of calculateTorinoScale: the results 9 and 8 are exchanged
calculateTorinoScaleSwapped(diameterKm, energyMegatons, isPHA, isSentry) ==
    IF isSentry THEN
        IF Gt(energyMegatons, 1000000) THEN 10
        ELSE IF Gt(energyMegatons, 100000) THEN 8
        ELSE IF Gt(energyMegatons, 10000) THEN 9
        ELSE IF Gt(energyMegatons, 1000) THEN 7
        ELSE IF Gt(diameterKm, 10) THEN 4
        ELSE 3
    ELSE IF isPHA THEN
        IF Gt(energyMegatons, 100000) THEN 3
        ELSE IF Gt(diameterKm, 10) THEN 2
        ELSE 1
    ELSE 0

calculateTorinoScale(diameterKm, energyMegatons, isPHA, isSentry) ==
    IF isSentry THEN
        IF Gt(energyMegatons, 1000000) THEN 10
        ELSE IF Gt(energyMegatons, 100000) THEN 9
        ELSE IF Gt(energyMegatons, 10000) THEN 8
        ELSE IF Gt(energyMegatons, 1000) THEN 7
        ELSE IF Gt(diameterKm, 10) THEN 4
        ELSE 3
    ELSE IF isPHA THEN
        IF Gt(energyMegatons, 100000) THEN 3
        ELSE IF Gt(diameterKm, 10) THEN 2
        ELSE 1
    ELSE 0

\* ceil(1000 * (v/20)^0.33) for v = 0 .. 30 km/s
Pow033Table ==
    <<0, 373, 468, 535, 588, 633, 673, 708, 740, 769, 796, 821, 845, 868, 889,
      910, 930, 948, 966, 984, 1000, 1017, 1032, 1048, 1063, 1077, 1091, 1105,
      1118, 1131, 1144>>

\* (velocityKmS / 20) ** 0.33 in thousandths; a negative base gives NaN.
\* On Huge and Largest the power is finite (at most (5e306) ** 0.33, about
\* 1.6e101) and beyond the integer range: Huge stands for it.
Pow033(velocityKmS) ==
    IF IsNaN(velocityKmS) \/ velocityKmS < 0 THEN NaN
    ELSE IF IsHuge(velocityKmS) THEN Huge
    ELSE Pow033Table[Min(velocityKmS, Len(Pow033Table) - 1) + 1]

\* diameterKm * 20 * (velocityKmS / 20) ** 0.33, evaluated as
\* (diameterKm * 20) * ((velocityKmS / 20) ** 0.33).  Largest * 20 is Infinity,
\* and Infinity * 0 is NaN; Huge * 20 is finite (2e201) and its product with a
\* power of at most 1.6e101 is finite too.  The model holds no negative Huge.
calculateCraterSize(diameterKm, velocityKmS) ==
    LET power == Pow033(velocityKmS) IN
    IF IsNaN(diameterKm) \/ IsNaN(power) THEN NaN
    ELSE IF diameterKm = Largest THEN (IF power = 0 THEN NaN ELSE Infinity)
    ELSE IF diameterKm = 0 \/ power = 0 THEN 0
    ELSE IF diameterKm = Huge THEN Huge
    ELSE IF power = Huge THEN (IF diameterKm < 0 THEN -Huge ELSE Huge)
    ELSE CeilMulDiv(diameterKm * 20, power, 1000)

\* a mutant of generateRiskZones: the final else branch is missing
generateRiskZonesNoDefault(energyMegatons, isPHA, isSentry) ==
    IF Gt(energyMegatons, 100000) THEN
        <<"Global Extinction Event", "Mass Extinction Event", "Global Devastation">>
    ELSE IF Gt(energyMegatons, 10000) THEN
        <<"Continental Devastation", "Global Impact", "Multiple Continents">>
    ELSE IF Gt(energyMegatons, 1000) THEN
        <<"Regional Damage", "Pacific Ocean", "Atlantic Ocean", "Indian Ocean">>
    ELSE IF Gt(energyMegatons, 100) THEN
        <<"Pacific Ocean", "Coastal Japan", "Western Pacific">>
    ELSE IF Gt(energyMegatons, 10) THEN
        <<"Remote Ocean", "Central Pacific", "North Atlantic">>
    ELSE
        <<>>

\* a mutant of generateRiskZones: independent ifs, so the labels of every
\* bracket the energy exceeds accumulate
generateRiskZonesCumulative(energyMegatons, isPHA, isSentry) ==
    (IF Gt(energyMegatons, 100000)
     THEN <<"Global Extinction Event", "Mass Extinction Event", "Global Devastation">>
     ELSE <<>>)
    \o (IF Gt(energyMegatons, 10000)
        THEN <<"Continental Devastation", "Global Impact", "Multiple Continents">>
        ELSE <<>>)
    \o (IF Gt(energyMegatons, 1000)
        THEN <<"Regional Damage", "Pacific Ocean", "Atlantic Ocean", "Indian Ocean">>
        ELSE <<>>)
    \o (IF Gt(energyMegatons, 100)
        THEN <<"Pacific Ocean", "Coastal Japan", "Western Pacific">>
        ELSE <<>>)
    \o (IF Gt(energyMegatons, 10)
        THEN <<"Remote Ocean", "Central Pacific", "North Atlantic">>
        ELSE <<"Remote Ocean">>)

\* a mutant of generateRiskZones: a sentry object is never rated below the
\* regional bracket
generateRiskZonesSentryFloor(energyMegatons, isPHA, isSentry) ==
    IF Gt(energyMegatons, 100000) THEN
        <<"Global Extinction Event", "Mass Extinction Event", "Global Devastation">>
    ELSE IF Gt(energyMegatons, 10000) THEN
        <<"Continental Devastation", "Global Impact", "Multiple Continents">>
    ELSE IF Gt(energyMegatons, 1000) \/ isSentry THEN
        <<"Regional Damage", "Pacific Ocean", "Atlantic Ocean", "Indian Ocean">>
    ELSE IF Gt(energyMegatons, 100) THEN
        <<"Pacific Ocean", "Coastal Japan", "Western Pacific">>
    ELSE IF Gt(energyMegatons, 10) THEN
        <<"Remote Ocean", "Central Pacific", "North Atlantic">>
    ELSE
        <<"Remote Ocean">>

generateRiskZones(energyMegatons, isPHA, isSentry) ==
    IF Gt(energyMegatons, 100000) THEN
        <<"Global Extinction Event", "Mass Extinction Event", "Global Devastation">>
    ELSE IF Gt(energyMegatons, 10000) THEN
        <<"Continental Devastation", "Global Impact", "Multiple Continents">>
    ELSE IF Gt(energyMegatons, 1000) THEN
        <<"Regional Damage", "Pacific Ocean", "Atlantic Ocean", "Indian Ocean">>
    ELSE IF Gt(energyMegatons, 100) THEN
        <<"Pacific Ocean", "Coastal Japan", "Western Pacific">>
    ELSE IF Gt(energyMegatons, 10) THEN
        <<"Remote Ocean", "Central Pacific", "North Atlantic">>
    ELSE
        <<"Remote Ocean">>

\* a mutant of calculateImportanceScore: the sum is returned without Math.min
calculateImportanceScoreUnclamped(diameterKm, velocityKmS, missDistanceAU, isPHA, isSentry) ==
    LET s1 == IF Gt(diameterKm, 100) THEN 4
              ELSE IF Gt(diameterKm, 10) THEN 3
              ELSE IF Gt(diameterKm, 5) THEN 2
              ELSE 1
        s2 == s1 + (IF Gt(velocityKmS, 25) THEN 2
                    ELSE IF Gt(velocityKmS, 15) THEN 1
                    ELSE 0)
        s3 == s2 + (IF Lt(missDistanceAU, 5) THEN 2
                    ELSE IF Lt(missDistanceAU, 20) THEN 1
                    ELSE 0)
    IN  s3 + (IF isSentry THEN 3
              ELSE IF isPHA THEN 2
              ELSE 0)

\* a mutant of calculateImportanceScore: the hazardous flag adds its points
\* even when the sentry flag is set (if in place of else if)
calculateImportanceScoreBothFlags(diameterKm, velocityKmS, missDistanceAU, isPHA, isSentry) ==
    LET s1 == IF Gt(diameterKm, 100) THEN 4
              ELSE IF Gt(diameterKm, 10) THEN 3
              ELSE IF Gt(diameterKm, 5) THEN 2
              ELSE 1
        s2 == s1 + (IF Gt(velocityKmS, 25) THEN 2
                    ELSE IF Gt(velocityKmS, 15) THEN 1
                    ELSE 0)
        s3 == s2 + (IF Lt(missDistanceAU, 5) THEN 2
                    ELSE IF Lt(missDistanceAU, 20) THEN 1
                    ELSE 0)
        score == s3 + (IF isSentry THEN 3 ELSE 0) + (IF isPHA THEN 2 ELSE 0)
    IN  Min(score, 10)

\* a mutant of calculateImportanceScore: the smallest diameter bracket adds
\* nothing
calculateImportanceScoreNoFloor(diameterKm, velocityKmS, missDistanceAU, isPHA, isSentry) ==
    LET D == IF Gt(diameterKm, 100) THEN 4
             ELSE IF Gt(diameterKm, 10) THEN 3
             ELSE IF Gt(diameterKm, 5) THEN 2 ELSE 0
        V == IF Gt(velocityKmS, 25) THEN 2
             ELSE IF Gt(velocityKmS, 15) THEN 1 ELSE 0
        P == IF Lt(missDistanceAU, 5) THEN 2
             ELSE IF Lt(missDistanceAU, 20) THEN 1 ELSE 0
        F == IF isSentry THEN 3 ELSE IF isPHA THEN 2 ELSE 0
    IN  Min(D + V + P + F, 10)

calculateImportanceScore(diameterKm, velocityKmS, missDistanceAU, isPHA, isSentry) ==
    LET s1 == IF Gt(diameterKm, 100) THEN 4
              ELSE IF Gt(diameterKm, 10) THEN 3
              ELSE IF Gt(diameterKm, 5) THEN 2
              ELSE 1
        s2 == s1 + (IF Gt(velocityKmS, 25) THEN 2
                    ELSE IF Gt(velocityKmS, 15) THEN 1
                    ELSE 0)
        s3 == s2 + (IF Lt(missDistanceAU, 5) THEN 2
                    ELSE IF Lt(missDistanceAU, 20) THEN 1
                    ELSE 0)
        score == s3 + (IF isSentry THEN 3
                       ELSE IF isPHA THEN 2
                       ELSE 0)
    IN  Min(score, 10)

----------------------------------------------------------------------------
(* JavaScript objects: a record is a function from its field names *)

\* obj.f read as a number: undefined (an absent field) acts as NaN
Num(obj, f) == IF f \in DOMAIN obj THEN obj[f] ELSE NaN

\* obj.f read in a condition: undefined is falsy
Truthy(obj, f) == f \in DOMAIN obj /\ obj[f]

DerivedFields == {"impact", "torino_scale", "importance_score"}

----------------------------------------------------------------------------
(* The enrichment pipeline of fetchAsteroidData (lines 575-606) *)

\* a mutant of ObjectSpread: the object is spread last, so its fields win
ObjectSpreadLast(obj, props) ==
    [f \in (DOMAIN obj) \cup (DOMAIN props) |->
        IF f \in DOMAIN obj THEN obj[f] ELSE props[f]]

\* { ...obj, p1: v1, ... } of lines 594-603: the properties written after the
\* spread replace the fields of the same name
ObjectSpread(obj, props) ==
    [f \in (DOMAIN obj) \cup (DOMAIN props) |->
        IF f \in DOMAIN props THEN props[f] ELSE obj[f]]

\* the callback of data.map (lines 575-604)
EnrichAsteroid(asteroid) ==
    LET diameterKm     == Num(asteroid, "estimated_diameter_km_max")
        velocityKmS    == Num(asteroid, "relative_velocity_km_s")
        missDistanceAU == Num(asteroid, "miss_distance_au")
        isPHA          == Truthy(asteroid, "is_potentially_hazardous_asteroid")
        isSentry       == Truthy(asteroid, "is_sentry_object")
        energyMegatons == calculateImpactEnergy(diameterKm, velocityKmS)
        torinoScale    == calculateTorinoScale(diameterKm, energyMegatons, isPHA, isSentry)
        craterKm       == calculateCraterSize(diameterKm, velocityKmS)
        riskZones      == generateRiskZones(energyMegatons, isPHA, isSentry)
        importanceScore ==
            calculateImportanceScore(diameterKm, velocityKmS, missDistanceAU, isPHA, isSentry)
    IN  ObjectSpread(asteroid,
                     [impact           |-> [energy_megatons |-> energyMegatons,
                                            crater_km       |-> craterKm,
                                            risk_zones      |-> riskZones],
                      torino_scale     |-> torinoScale,
                      importance_score |-> importanceScore])

\* data.map(...) of line 575
MapEnrich(data) == [k \in 1..Len(data) |-> EnrichAsteroid(data[k])]

\* a mutant of SortCompare: ascending order
SortCompareAscending(a, b) == a["importance_score"] - b["importance_score"]

\* the comparator of line 606
SortCompare(a, b) == b["importance_score"] - a["importance_score"]

\* a mutant of SortInsert: x also goes before the elements it ties with
RECURSIVE SortInsertUnstable(_, _)
SortInsertUnstable(sorted, x) ==
    IF sorted = <<>> THEN <<x>>
    ELSE IF SortCompare(x, Head(sorted)) <= 0 THEN <<x>> \o sorted
    ELSE <<Head(sorted)>> \o SortInsertUnstable(Tail(sorted), x)

\* one insertion step of Array.prototype.sort, which is stable: x goes before
\* the first element it must strictly precede, behind every element it ties with
RECURSIVE SortInsert(_, _)
SortInsert(sorted, x) ==
    IF sorted = <<>> THEN <<x>>
    ELSE IF SortCompare(x, Head(sorted)) < 0 THEN <<x>> \o sorted
    ELSE <<Head(sorted)>> \o SortInsert(Tail(sorted), x)

\* enrichedData.sort(compare) of line 606
RECURSIVE SortFrom(_, _, _)
SortFrom(sorted, data, k) ==
    IF k > Len(data) THEN sorted
    ELSE SortFrom(SortInsert(sorted, data[k]), data, k + 1)

ArraySort(data) == SortFrom(<<>>, data, 1)

\* lines 575-606: the list stored by setAsteroidData
EnrichAndRank(data) == ArraySort(MapEnrich(data))

----------------------------------------------------------------------------
(* Answers of the data source (GET /database/asteroids, lines 562-573) *)

RawRecord(d, v, m, pha, sentry) ==
    [estimated_diameter_km_max         |-> d,
     relative_velocity_km_s            |-> v,
     miss_distance_au                  |-> m,
     is_potentially_hazardous_asteroid |-> pha,
     is_sentry_object                  |-> sentry]

\* a record that already carries fields with the names of the derived ones
RawDerived ==
    [impact           |-> [energy_megatons |-> 1, crater_km |-> 1,
                           risk_zones |-> <<"Raw Zone">>],
     torino_scale     |-> 5,
     importance_score |-> 0]

Without(obj, fields) == [f \in (DOMAIN obj) \ fields |-> obj[f]]

\* the records the data source may answer with (without their id):
\*   a small regular body, two hazardous bodies of equal importance, a large
\*   sentry object, a record carrying derived names, a record without
\*   velocity and flags, and a record with a negative diameter
RawPool ==
    { RawRecord(3, 10, 30, FALSE, FALSE),
      RawRecord(12, 20, 10, TRUE, FALSE),
      RawRecord(6, 26, 10, TRUE, FALSE),
      RawRecord(101, 26, 4, TRUE, TRUE),
      RawRecord(3, 10, 30, FALSE, FALSE) @@ RawDerived,
      Without(RawRecord(12, NaN, 30, FALSE, FALSE),
              {"relative_velocity_km_s", "is_potentially_hazardous_asteroid",
               "is_sentry_object"}),
      RawRecord(-5, 20, 30, FALSE, TRUE) }

\* a JSON list of up to MaxRecords records; the k-th record has id k
ResponseBodies ==
    UNION { { [k \in 1..n |-> ("id" :> k) @@ s[k]] : s \in [1..n -> RawPool] }
            : n \in 0..MaxRecords }

\* what the catch block (line 614) can receive as error.message: a network
\* failure, a non-2xx status (line 570), a body that is not JSON, a JSON
\* value that is no list
FetchErrors ==
    { "Failed to fetch",
      "HTTP 500: Internal Server Error",
      "Unexpected token < in JSON at position 0",
      "data.map is not a function" }

Null == "null"

\* a JSON number as a list element: reading a field of it gives undefined and
\* spreading it gives no property (lines 576-586)
JsonNumber == <<>>

\* what the list may hold while the view is operated: a regular body, a
\* large sentry object, and a number in place of a record
ViewPool ==
    { RawRecord(3, 10, 30, FALSE, FALSE),
      RawRecord(101, 26, 4, TRUE, TRUE),
      JsonNumber }

\* a JSON list of up to MaxViewRecords elements; a record at position k has
\* id k
ViewBodies ==
    UNION { { [k \in 1..n |-> IF DOMAIN s[k] = {} THEN s[k] ELSE ("id" :> k) @@ s[k]]
              : s \in [1..n -> ViewPool] }
            : n \in 0..MaxViewRecords }

\* a list of r regular bodies, then h hazardous ones (torino_scale 1), then c
\* critical ones (torino_scale 3), with ids 1 .. r + h + c
RingBody(r, h, c) ==
    [k \in 1..(r + h + c) |->
        ("id" :> k) @@ (IF k <= r THEN RawRecord(3, 10, 30, FALSE, FALSE)
                        ELSE IF k <= r + h THEN RawRecord(6, 26, 10, TRUE, FALSE)
                        ELSE RawRecord(12, 20, 10, TRUE, FALSE))]

\* every mix of the three classes in a list of up to MaxRingRecords records
RingBodies ==
    { RingBody(r, h, c) : <<r, h, c>> \in
        { t \in (0..MaxRingRecords) \X (0..MaxRingRecords) \X (0..MaxRingRecords) :
            t[1] + t[2] + t[3] <= MaxRingRecords } }

----------------------------------------------------------------------------
(* The ring layout of recreateAsteroids (lines 703-953).  A list of visible *)
(* asteroids is filtered by position: the source compares the objects by   *)
(* identity, and every element of the list is an object of its own.        *)

maxAsteroidsPerRing == 5

baseDistance == 15

ringGap == 12

Max(a, b) == IF a >= b THEN a ELSE b

\* Math.ceil(n / k) for n >= 0
CeilDiv(n, k) == (n + k - 1) \div k

\* lines 730-732
IsCritical(a) == Truthy(a, "is_sentry_object") \/ Ge(Num(a, "torino_scale"), 3)

\* lines 733-737
IsHazardous(a) ==
    /\ ~IsCritical(a)
    /\ (Truthy(a, "is_potentially_hazardous_asteroid") \/ Ge(Num(a, "torino_scale"), 1))

criticalAsteroids(visible) == { i \in 1..Len(visible) : IsCritical(visible[i]) }

hazardousAsteroids(visible) == { i \in 1..Len(visible) : IsHazardous(visible[i]) }

\* lines 738-740
regularAsteroids(visible) ==
    { i \in 1..Len(visible) :
        i \notin criticalAsteroids(visible) /\ i \notin hazardousAsteroids(visible) }

\* list.indexOf(visible[i]) for a filtered list that holds position i
IndexOf(list, i) == Cardinality({ j \in list : j < i })

\* lines 742-744
criticalRings(visible) ==
    Max(1, CeilDiv(Cardinality(criticalAsteroids(visible)), maxAsteroidsPerRing))

hazardousRings(visible) ==
    Max(0, CeilDiv(Cardinality(hazardousAsteroids(visible)), maxAsteroidsPerRing))

regularRings(visible) ==
    Max(0, CeilDiv(Cardinality(regularAsteroids(visible)), maxAsteroidsPerRing))

\* lines 746-786: the rings, critical first, then hazardous, then regular
\* (colour and opacity follow the type and are left out)
calculateDynamicRings(visible) ==
    LET c == criticalRings(visible)
        h == hazardousRings(visible)
        r == regularRings(visible)
    IN  [k \in 1..(c + h + r) |->
            [distance |-> baseDistance + ringGap * (k - 1),
             type     |-> IF k <= c THEN "critical"
                          ELSE IF k <= c + h THEN "hazardous" ELSE "regular"]]

\* lines 796-799
hazardousRingIndex(visible) ==
    IF Cardinality(criticalAsteroids(visible)) > 0
    THEN CeilDiv(Cardinality(criticalAsteroids(visible)), maxAsteroidsPerRing)
    ELSE 0

\* a mutant of regularRingIndex: the rings of the hazardous asteroids are not
\* counted
regularRingIndexShared(visible) == hazardousRingIndex(visible)

\* lines 800-804
regularRingIndex(visible) ==
    hazardousRingIndex(visible) +
        (IF Cardinality(hazardousAsteroids(visible)) > 0
         THEN CeilDiv(Cardinality(hazardousAsteroids(visible)), maxAsteroidsPerRing)
         ELSE 0)

\* lines 809-825: the ring index (from 0) of the asteroid at position i
RingIndex(visible, i) ==
    IF i \in criticalAsteroids(visible) THEN
        IndexOf(criticalAsteroids(visible), i) \div maxAsteroidsPerRing
    ELSE IF i \in hazardousAsteroids(visible) THEN
        hazardousRingIndex(visible)
            + (IndexOf(hazardousAsteroids(visible), i) \div maxAsteroidsPerRing)
    ELSE
        regularRingIndex(visible)
            + (IndexOf(regularAsteroids(visible), i) \div maxAsteroidsPerRing)

\* lines 827-828: an asteroid whose ring index is outside the list is skipped
HasRing(visible, i) == RingIndex(visible, i) < Len(calculateDynamicRings(visible))

\* lines 890-899: the mesh of the asteroid at position i (the random offset of
\* line 831, the size and the colours are left out)
AsteroidMeshOf(visible, i) ==
    [userData    |-> visible[i],
     orbitRing   |-> RingIndex(visible, i),
     orbitRadius |-> calculateDynamicRings(visible)[RingIndex(visible, i) + 1].distance]

\* lines 806-925: asteroidMeshes.current after the loop, a map from asteroid.id
\* to the mesh; a later asteroid with the same id takes the place of an
\* earlier one.  hitboxMeshes.current has the same keys and the same userData.
BuildAsteroidMeshes(visible) ==
    LET placed == { i \in 1..Len(visible) : HasRing(visible, i) }
        last(key) == CHOOSE i \in placed :
                        /\ Num(visible[i], "id") = key
                        /\ \A j \in placed : Num(visible[j], "id") = key => j <= i
    IN  [key \in { Num(visible[i], "id") : i \in placed } |->
            AsteroidMeshOf(visible, last(key))]

\* lines 930-947: one orbit-ring mesh per ring
BuildOrbitRings(visible) ==
    LET rings == calculateDynamicRings(visible) IN
    [k \in 1..Len(rings) |->
        [isOrbitRing |-> TRUE, ringType |-> rings[k].type, ringIndex |-> k - 1,
         distance |-> rings[k].distance]]

----------------------------------------------------------------------------
(* The view state of App (lines 527-628) *)

\* asteroidData.slice(0, maxAsteroids)
VisibleOf(data, count) == SubSeq(data, 1, Min(count, Len(data)))

\* a mutant of visibleAsteroids: the last maxAsteroids records are shown
visibleAsteroidsTail ==
    SubSeq(asteroidData, Len(asteroidData) - Min(maxAsteroids, Len(asteroidData)) + 1,
           Len(asteroidData))

\* useMemo of lines 626-628
visibleAsteroids == VisibleOf(asteroidData, maxAsteroids)

CalcIdle ==
    /\ callArgs = <<>>
    /\ callResult = [fn |-> "none"]

\* useState<AsteroidData | null>: null, and a record
None == <<>>

Some(asteroid) == <<asteroid>>

Init ==
    /\ asteroidData = <<>>
    /\ maxAsteroids = 0
    /\ isLoadingAsteroids = TRUE
    /\ loadError = Null
    /\ fetchPc = "unstarted"
    /\ responseBody = <<>>
    /\ mounted = TRUE
    /\ requestsIssued = 0
    /\ requestsInFlight = 0
    /\ showOrbits = TRUE
    /\ hoveredAsteroid = None
    /\ selectedAsteroid = None
    /\ isGeneratingReport = FALSE
    /\ reportRequests = <<>>
    /\ isInitialized = FALSE
    /\ asteroidMeshes = <<>>
    /\ orbitRings = <<>>
    /\ currentImpactTrajectory = None
    /\ pointer = "up"
    /\ CalcIdle

\* a mutant of recreateAsteroids: the orbit rings already in the scene are
\* not removed before the new ones are added
recreateAsteroidsKeepRings(visible, orbits, sceneRings) ==
    IF Len(visible) = 0 THEN
        /\ asteroidMeshes' = asteroidMeshes
        /\ orbitRings' = sceneRings
    ELSE
        /\ asteroidMeshes' = BuildAsteroidMeshes(visible)
        /\ orbitRings' = IF orbits THEN sceneRings \o BuildOrbitRings(visible)
                         ELSE sceneRings

\* lines 703-953, called with the scene set up: visible and orbits are
\* visibleAsteroids and showOrbits of the render the caller belongs to,
\* sceneRings the orbit rings in the scene at the call.  Nothing is done for
\* an empty list (line 704); else the meshes are replaced (lines 708-723 and
\* 806-925) and, with showOrbits on, the orbit rings too (lines 927-948).
recreateAsteroids(visible, orbits, sceneRings) ==
    IF Len(visible) = 0 THEN
        /\ asteroidMeshes' = asteroidMeshes
        /\ orbitRings' = sceneRings
    ELSE
        /\ asteroidMeshes' = BuildAsteroidMeshes(visible)
        /\ orbitRings' = IF orbits THEN BuildOrbitRings(visible) ELSE sceneRings

\* lines 955-959: the effect run after a render in which maxAsteroids,
\* visibleAsteroids or asteroidData changed
RecreateEffect(visible) ==
    IF isInitialized THEN recreateAsteroids(visible, showOrbits, orbitRings)
    ELSE UNCHANGED <<asteroidMeshes, orbitRings>>

\* lines 556-567 and 621-623: the effect with the empty dependency list runs
\* once after the first render and calls fetchAsteroidData, which runs up to
\* its first await
FetchAsteroidDataStart ==
    /\ mounted
    /\ fetchPc = "unstarted"
    /\ isLoadingAsteroids' = TRUE
    /\ loadError' = Null
    /\ fetchPc' = "awaiting"
    /\ requestsIssued' = requestsIssued + 1
    /\ requestsInFlight' = requestsInFlight + 1
    /\ UNCHANGED <<asteroidData, maxAsteroids, responseBody, mounted, viewVars,
                   sceneVars, calcVars>>

\* lines 569-611 and 617-619: the response is ok and its body is one of
\* bodies.  The effect returns no cleanup and the function tests no mounted
\* flag, so the setters are called whether or not App is still mounted.
\* While App is mounted the render that follows shows the dashboard if the
\* list is not empty, and the effect of lines 971-1035 then sets up the scene
\* and calls recreateAsteroids (the effects of lines 955-970 run before it,
\* with isInitialized.current still false).
FetchSucceeds(bodies) ==
    /\ fetchPc = "awaiting"
    /\ \E data \in bodies :
          LET sortedData == EnrichAndRank(data) IN
          /\ responseBody' = data
          /\ asteroidData' = sortedData
          /\ maxAsteroids' = Len(sortedData)
          /\ IF mounted /\ Len(sortedData) > 0 THEN
                 /\ isInitialized' = TRUE
                 /\ recreateAsteroids(sortedData, showOrbits, orbitRings)
             ELSE UNCHANGED <<isInitialized, asteroidMeshes, orbitRings>>
    /\ isLoadingAsteroids' = FALSE
    /\ fetchPc' = "done"
    /\ requestsInFlight' = requestsInFlight - 1
    /\ UNCHANGED <<loadError, requestsIssued, mounted, viewVars,
                   currentImpactTrajectory, pointer, calcVars>>

FetchAsteroidDataSuccess == FetchSucceeds(ResponseBodies)

\* a mutant of FetchAsteroidDataCatch: after a failure the request is sent
\* again
FetchAsteroidDataCatchRetry ==
    /\ fetchPc = "awaiting"
    /\ \E message \in FetchErrors : loadError' = message
    /\ asteroidData' = <<>>
    /\ maxAsteroids' = 0
    /\ isLoadingAsteroids' = TRUE
    /\ fetchPc' = "awaiting"
    /\ requestsIssued' = requestsIssued + 1
    /\ requestsInFlight' = requestsInFlight
    /\ UNCHANGED <<responseBody, mounted, viewVars, sceneVars, calcVars>>

\* a mutant of FetchAsteroidDataCatch: the finally block is missing
FetchAsteroidDataCatchNoFinally ==
    /\ fetchPc = "awaiting"
    /\ \E message \in FetchErrors : loadError' = message
    /\ asteroidData' = <<>>
    /\ maxAsteroids' = 0
    /\ isLoadingAsteroids' = isLoadingAsteroids
    /\ fetchPc' = "done"
    /\ requestsInFlight' = requestsInFlight - 1
    /\ UNCHANGED <<responseBody, requestsIssued, mounted, viewVars, sceneVars, calcVars>>

\* lines 612-619: anything thrown inside the try block; the render that
\* follows shows the error screen
FetchAsteroidDataCatch ==
    /\ fetchPc = "awaiting"
    /\ \E message \in FetchErrors : loadError' = message
    /\ asteroidData' = <<>>
    /\ maxAsteroids' = 0
    /\ isLoadingAsteroids' = FALSE
    /\ fetchPc' = "done"
    /\ requestsInFlight' = requestsInFlight - 1
    /\ UNCHANGED <<responseBody, requestsIssued, mounted, viewVars, sceneVars, calcVars>>

\* lines 1301, 1323, 1352: the dashboard is rendered once loading has
\* finished without error and with at least one record
MainViewRendered ==
    /\ mounted
    /\ ~isLoadingAsteroids
    /\ loadError = Null
    /\ Len(asteroidData) > 0

\* a mutant of SliderChange: the list itself is cut to the chosen length
SliderChangeTruncating ==
    /\ MainViewRendered
    /\ \E n \in 1..Len(asteroidData) :
          /\ maxAsteroids' = n
          /\ asteroidData' = SubSeq(asteroidData, 1, n)
          /\ RecreateEffect(VisibleOf(asteroidData, n))
    /\ UNCHANGED <<isLoadingAsteroids, loadError, fetchPc, responseBody,
                   requestsIssued, requestsInFlight, mounted, viewVars,
                   isInitialized, currentImpactTrajectory, pointer, calcVars>>

\* a mutant of SliderChange: the range input starts at 0 and ends one past
\* the list
SliderChangeUnclamped ==
    /\ MainViewRendered
    /\ \E n \in 0..(Len(asteroidData) + 1) :
          /\ maxAsteroids' = n
          /\ RecreateEffect(VisibleOf(asteroidData, n))
    /\ UNCHANGED <<asteroidData, isLoadingAsteroids, loadError, fetchPc, responseBody,
                   requestsIssued, requestsInFlight, mounted, viewVars,
                   isInitialized, currentImpactTrajectory, pointer, calcVars>>

\* lines 1406-1412: the range input of the dashboard, and the effect of
\* lines 955-959 after the render
SliderChange ==
    /\ MainViewRendered
    /\ \E n \in 1..Len(asteroidData) :
          /\ maxAsteroids' = n
          /\ RecreateEffect(VisibleOf(asteroidData, n))
    /\ UNCHANGED <<asteroidData, isLoadingAsteroids, loadError, fetchPc, responseBody,
                   requestsIssued, requestsInFlight, mounted, viewVars,
                   isInitialized, currentImpactTrajectory, pointer, calcVars>>

Next ==
    \/ FetchAsteroidDataStart
    \/ FetchAsteroidDataSuccess
    \/ FetchAsteroidDataCatch
    \/ SliderChange

Spec == Init /\ [][Next]_vars

----------------------------------------------------------------------------
(* The dashboard in use: controls, pointer, report buttons and unmounting  *)

ViewFetchAsteroidDataSuccess == FetchSucceeds(ViewBodies)

\* lines 1392-1397: the Orbital Paths checkbox, and the effect of lines
\* 961-970 after the render: the orbit rings are removed from the scene and,
\* with showOrbits on, recreateAsteroids is called
OrbitToggle ==
    /\ MainViewRendered
    /\ showOrbits' = ~showOrbits
    /\ IF ~isInitialized THEN UNCHANGED <<asteroidMeshes, orbitRings>>
       ELSE IF ~showOrbits THEN recreateAsteroids(visibleAsteroids, TRUE, <<>>)
       ELSE asteroidMeshes' = asteroidMeshes /\ orbitRings' = <<>>
    /\ UNCHANGED <<fetchVars, mounted, hoveredAsteroid, selectedAsteroid,
                   isGeneratingReport, reportRequests,
                   isInitialized, currentImpactTrajectory, pointer, calcVars>>

\* lines 1033-1037, onMouseDown
MouseDown ==
    /\ MainViewRendered
    /\ pointer' = "down"
    /\ UNCHANGED <<fetchVars, mounted, viewVars, isInitialized, asteroidMeshes,
                   orbitRings, currentImpactTrajectory, calcVars>>

\* lines 1039-1088, onMouseMove: with the button down the move may exceed the
\* drag distance; the previous hover is cleared, then the record of the mesh
\* whose hitbox is under the pointer, if any, is set
MouseMove ==
    /\ MainViewRendered
    /\ \/ pointer' = pointer
       \/ pointer # "up" /\ pointer' = "dragging"
    /\ \/ hoveredAsteroid' = None
       \/ \E id \in DOMAIN asteroidMeshes :
             hoveredAsteroid' = Some(asteroidMeshes[id].userData)
    /\ UNCHANGED <<fetchVars, mounted, showOrbits, selectedAsteroid,
                   isGeneratingReport, reportRequests,
                   isInitialized, asteroidMeshes, orbitRings,
                   currentImpactTrajectory, calcVars>>

\* lines 1090-1142, onMouseUp: a release within 300 ms of the press and
\* without a drag is a click.  A click on a hitbox selects the record of its
\* mesh and replaces the impact trajectory; a click elsewhere deselects and
\* removes the trajectory.
MouseUp ==
    /\ MainViewRendered
    /\ pointer' = "up"
    /\ \/ /\ pointer = "down"
          /\ \E id \in DOMAIN asteroidMeshes :
                LET clickedMesh == asteroidMeshes[id] IN
                /\ selectedAsteroid' = Some(clickedMesh.userData)
                /\ currentImpactTrajectory' =
                      Some([target    |-> clickedMesh.userData,
                            riskZones |-> clickedMesh.userData["impact"].risk_zones])
       \/ /\ pointer = "down"
          /\ selectedAsteroid' = None
          /\ currentImpactTrajectory' = None
       \/ UNCHANGED <<selectedAsteroid, currentImpactTrajectory>>
    /\ UNCHANGED <<fetchVars, mounted, showOrbits, hoveredAsteroid,
                   isGeneratingReport, reportRequests,
                   isInitialized, asteroidMeshes, orbitRings, calcVars>>

\* a mutant of GenerateAIReport: the ids of the whole list are sent
GenerateAIReportAll ==
    /\ MainViewRendered
    /\ selectedAsteroid = None
    /\ ~isGeneratingReport
    /\ isGeneratingReport' = TRUE
    /\ reportRequests' =
          Append(reportRequests,
                 [i \in 1..Len(asteroidData) |-> Num(asteroidData[i], "id")])
    /\ UNCHANGED <<fetchVars, mounted, showOrbits, hoveredAsteroid, selectedAsteroid,
                   sceneVars, calcVars>>

\* lines 630-642: the button of lines 1639-1643, rendered while nothing is
\* selected and enabled while no report is being generated
GenerateAIReport ==
    /\ MainViewRendered
    /\ selectedAsteroid = None
    /\ ~isGeneratingReport
    /\ isGeneratingReport' = TRUE
    /\ reportRequests' =
          Append(reportRequests,
                 [i \in 1..Len(visibleAsteroids) |-> Num(visibleAsteroids[i], "id")])
    /\ UNCHANGED <<fetchVars, mounted, showOrbits, hoveredAsteroid, selectedAsteroid,
                   sceneVars, calcVars>>

\* a mutant of GenerateSingleAsteroidReport: the button is not disabled while
\* a report is being generated
GenerateSingleAsteroidReportEnabled ==
    /\ MainViewRendered
    /\ selectedAsteroid # None
    /\ isGeneratingReport' = TRUE
    /\ reportRequests' = Append(reportRequests, <<Num(selectedAsteroid[1], "id")>>)
    /\ UNCHANGED <<fetchVars, mounted, showOrbits, hoveredAsteroid, selectedAsteroid,
                   sceneVars, calcVars>>

\* lines 666-679: the button of lines 1592-1596, rendered while an asteroid
\* is selected
GenerateSingleAsteroidReport ==
    /\ MainViewRendered
    /\ selectedAsteroid # None
    /\ ~isGeneratingReport
    /\ isGeneratingReport' = TRUE
    /\ reportRequests' = Append(reportRequests, <<Num(selectedAsteroid[1], "id")>>)
    /\ UNCHANGED <<fetchVars, mounted, showOrbits, hoveredAsteroid, selectedAsteroid,
                   sceneVars, calcVars>>

\* lines 644-651 and 681-688 with the finally block: the response is ok and
\* the report is written into a new tab
ReportOpened ==
    /\ reportRequests # <<>>
    /\ reportRequests' = Tail(reportRequests)
    /\ isGeneratingReport' = FALSE
    /\ UNCHANGED <<fetchVars, mounted, showOrbits, hoveredAsteroid, selectedAsteroid,
                   sceneVars, calcVars>>

\* lines 652-654 and 689-691 with the finally block: the response is ok and
\* window.open returned null; an alert is shown
ReportPopupBlocked ==
    /\ reportRequests # <<>>
    /\ reportRequests' = Tail(reportRequests)
    /\ isGeneratingReport' = FALSE
    /\ UNCHANGED <<fetchVars, mounted, showOrbits, hoveredAsteroid, selectedAsteroid,
                   sceneVars, calcVars>>

\* lines 655-658 and 692-695 with the finally block: the response is not ok;
\* an alert is shown
ReportFailed ==
    /\ reportRequests # <<>>
    /\ reportRequests' = Tail(reportRequests)
    /\ isGeneratingReport' = FALSE
    /\ UNCHANGED <<fetchVars, mounted, showOrbits, hoveredAsteroid, selectedAsteroid,
                   sceneVars, calcVars>>

\* lines 659-663 and 696-700: fetch threw; an alert is shown
ReportNetworkError ==
    /\ reportRequests # <<>>
    /\ reportRequests' = Tail(reportRequests)
    /\ isGeneratingReport' = FALSE
    /\ UNCHANGED <<fetchVars, mounted, showOrbits, hoveredAsteroid, selectedAsteroid,
                   sceneVars, calcVars>>

\* App is removed from the page: the dashboard and its listeners are gone and
\* the cleanup of lines 1245-1274 runs if the scene was set up; requests in
\* flight are not aborted (no effect of lines 556-623 or function of lines
\* 630-701 holds an AbortController)
Unmount ==
    /\ mounted
    /\ mounted' = FALSE
    /\ isInitialized' = FALSE
    /\ UNCHANGED <<fetchVars, viewVars, asteroidMeshes, orbitRings,
                   currentImpactTrajectory, pointer, calcVars>>

NextView ==
    \/ FetchAsteroidDataStart
    \/ ViewFetchAsteroidDataSuccess
    \/ FetchAsteroidDataCatch
    \/ SliderChange
    \/ OrbitToggle
    \/ MouseDown
    \/ MouseMove
    \/ MouseUp
    \/ GenerateAIReport
    \/ GenerateSingleAsteroidReport
    \/ ReportOpened
    \/ ReportPopupBlocked
    \/ ReportFailed
    \/ ReportNetworkError
    \/ Unmount

SpecView == Init /\ [][NextView]_vars

----------------------------------------------------------------------------
(* The ring layout in use: lists of up to MaxRingRecords records, the      *)
(* slider and the Orbital Paths checkbox                                   *)

RingsFetchAsteroidDataSuccess == FetchSucceeds(RingBodies)

NextRings ==
    \/ FetchAsteroidDataStart
    \/ RingsFetchAsteroidDataSuccess
    \/ FetchAsteroidDataCatch
    \/ SliderChange
    \/ OrbitToggle

SpecRings == Init /\ [][NextRings]_vars

----------------------------------------------------------------------------
(* getAsteroidsData (lines 44-73) *)

\* a JavaScript value of a type the function does not look into: its type
\* and its text
JsValue(type, value) == [type |-> type, value |-> value]

JsNull == JsValue("null", "")

JsUndefined == JsValue("undefined", "")

JsString(text) == JsValue("string", text)

\* the left operand of || is taken when it is truthy: an array or an object
\* always, a string unless it is empty, undefined and null never
JsTruthy(v) ==
    \/ v.type \in {"array", "object"}
    \/ (v.type = "string" /\ v.value # "")

\* obj?.field: undefined when the field is absent
JsField(obj, field) == IF field \in DOMAIN obj THEN obj[field] ELSE JsUndefined

\* bodies of a successful answer (response.data)
AsteroidsBodies ==
    { JsValue("array", "[]"), JsValue("array", "[{id: 1}, {id: 2}]"), JsNull }

\* bodies of an error answer (error.response.data): without a detail field, and
\* with one that is a message, the empty string, or a list of validation errors
ErrorBodies ==
    { <<>>,
      "detail" :> JsString("No asteroids for this date"),
      "detail" :> JsString(""),
      "detail" :> JsValue("array", "[{loc: [path, date], msg: invalid date}]") }

\* what api.get (line 46) rejects with: the server answered with an error
\* status, the request got no answer, the request could not be set up
AxiosErrors ==
    { ("response" :> [status |-> status, data |-> body]) @@ ("request" :> TRUE)
          @@ ("message" :> "Request failed") : status \in {404, 422, 500},
                                                body \in ErrorBodies }
    \cup { ("request" :> TRUE) @@ ("message" :> m) :
               m \in {"Network Error", "timeout of 8000ms exceeded"} }
    \cup { "message" :> "Invalid URL" }

\* outcome is what awaiting api.get gave: [fulfilled |-> TRUE, value |->
\* response] or [fulfilled |-> FALSE, value |-> error]
getAsteroidsData(outcome) ==
    IF outcome.fulfilled THEN
        [settled |-> "resolved", data |-> outcome.value.data, error |-> JsNull]
    ELSE
        LET error == outcome.value IN
        IF "response" \in DOMAIN error THEN
            LET detail == JsField(error["response"].data, "detail")
                msg == IF JsTruthy(detail) THEN detail
                       ELSE JsString("Server Error (" \o ToString(error["response"].status)
                                         \o ")")
            IN  [settled |-> "resolved", data |-> JsNull, error |-> msg]
        ELSE IF "request" \in DOMAIN error THEN
            [settled |-> "resolved", data |-> JsNull,
             error |-> JsString("No response received from server")]
        ELSE
            [settled |-> "resolved", data |-> JsNull, error |-> JsString(error["message"])]

----------------------------------------------------------------------------
(* Direct calls of the estimators, over values at, just below and just     *)
(* above every threshold, NaN, a negative value and the extremes           *)

EnergyArgs ==
    { NaN, -1, 0, 9, 10, 11, 99, 100, 101, 999, 1000, 1001, 9999, 10000, 10001,
      99999, 100000, 100001, 999999, 1000000, 1000001 }

\* tenths of a kilometre; 10000000 is 1e6 km
DiameterArgs == { NaN, -1, 0, 4, 5, 6, 9, 10, 11, 99, 100, 101, 10000000 }

VelocityArgs == { NaN, 0, 14, 15, 16, 24, 25, 26, 1000000 }

\* hundredths of an AU
MissDistanceArgs == { NaN, 0, 4, 5, 6, 19, 20, 21, 100 }

CallTorinoScale ==
    /\ CalcIdle
    /\ \E d \in DiameterArgs, e \in EnergyArgs, pha \in BOOLEAN, sentry \in BOOLEAN :
          /\ callArgs' = [diameterKm |-> d, energyMegatons |-> e,
                          isPHA |-> pha, isSentry |-> sentry]
          /\ callResult' = [fn |-> "calculateTorinoScale",
                            value |-> calculateTorinoScale(d, e, pha, sentry)]
    /\ UNCHANGED appVars

CallRiskZones ==
    /\ CalcIdle
    /\ \E e \in EnergyArgs, pha \in BOOLEAN, sentry \in BOOLEAN :
          /\ callArgs' = [energyMegatons |-> e, isPHA |-> pha, isSentry |-> sentry]
          /\ callResult' = [fn |-> "generateRiskZones",
                            value |-> generateRiskZones(e, pha, sentry)]
    /\ UNCHANGED appVars

CallImportanceScore ==
    /\ CalcIdle
    /\ \E d \in DiameterArgs, v \in VelocityArgs, m \in MissDistanceArgs,
          pha \in BOOLEAN, sentry \in BOOLEAN :
          /\ callArgs' = [diameterKm |-> d, velocityKmS |-> v, missDistanceAU |-> m,
                          isPHA |-> pha, isSentry |-> sentry]
          /\ callResult' = [fn |-> "calculateImportanceScore",
                            value |-> calculateImportanceScore(d, v, m, pha, sentry)]
    /\ UNCHANGED appVars

\* diameters (tenths of a kilometre) and velocities small enough for the
\* energy to stay within 32 bits, and the finite doubles that overflow
EstimateDiameterArgs == { NaN, -5, 0, 3, 10, 12, 101, Huge, Largest }

EstimateVelocityArgs == { NaN, 0, 10, 20, 26, Huge, Largest }

CallImpactEnergy ==
    /\ CalcIdle
    /\ \E d \in EstimateDiameterArgs, v \in EstimateVelocityArgs :
          /\ callArgs' = [diameterKm |-> d, velocityKmS |-> v]
          /\ callResult' = [fn |-> "calculateImpactEnergy",
                            value |-> calculateImpactEnergy(d, v)]
    /\ UNCHANGED appVars

CallCraterSize ==
    /\ CalcIdle
    /\ \E d \in EstimateDiameterArgs, v \in EstimateVelocityArgs :
          /\ callArgs' = [diameterKm |-> d, velocityKmS |-> v]
          /\ callResult' = [fn |-> "calculateCraterSize",
                            value |-> calculateCraterSize(d, v)]
    /\ UNCHANGED appVars

CallGetAsteroidsData ==
    /\ CalcIdle
    /\ \E outcome \in { [fulfilled |-> TRUE, value |-> [data |-> body]] :
                             body \in AsteroidsBodies }
                     \cup { [fulfilled |-> FALSE, value |-> e] : e \in AxiosErrors } :
          /\ callArgs' = outcome
          /\ callResult' = [fn |-> "getAsteroidsData", value |-> getAsteroidsData(outcome)]
    /\ UNCHANGED appVars

NextCalc ==
    \/ CallTorinoScale
    \/ CallRiskZones
    \/ CallImportanceScore
    \/ CallImpactEnergy
    \/ CallCraterSize
    \/ CallGetAsteroidsData

SpecCalc == Init /\ [][NextCalc]_vars

----------------------------------------------------------------------------
(* Properties of the enrichment pipeline *)

Fetched == fetchPc = "done" /\ loadError = Null

Score(i) == asteroidData[i]["importance_score"]

\* the position in asteroidData of the record made from responseBody[k]
\* (ids are the positions in the response)
OutputOf(k) == CHOOSE i \in 1..Len(asteroidData) : asteroidData[i]["id"] = k

\* C1: after a successful fetch the stored list is ordered by importance_score
\* descending and holds exactly one enriched record per raw record.
C1_RankedDescending ==
    Fetched =>
        /\ \A i, j \in 1..Len(asteroidData) : i < j => Score(i) >= Score(j)
        /\ Len(asteroidData) = Len(responseBody)
        /\ \A k \in 1..Len(responseBody) :
              Cardinality({ i \in 1..Len(asteroidData) :
                              asteroidData[i] = EnrichAsteroid(responseBody[k]) }) = 1

\* three records whose input order was not the ranked order
C1_Witness ==
    /\ Fetched
    /\ Len(asteroidData) = 3
    /\ asteroidData[1]["id"] = 3
    /\ asteroidData[3]["id"] = 1
    /\ Score(1) > Score(2)
    /\ Score(2) > Score(3)

\* C2: the ranking is stable: records of equal importance_score keep the
\* relative order they had in the response.
C2_Stable ==
    Fetched =>
        \A i, j \in 1..Len(asteroidData) :
            (i < j /\ Score(i) = Score(j)) => asteroidData[i]["id"] < asteroidData[j]["id"]

\* input [a, b, c] with a and b different records of equal score and c higher:
\* the output is [c, a, b]
C2_Witness ==
    /\ Fetched
    /\ Len(asteroidData) = 3
    /\ <<asteroidData[1]["id"], asteroidData[2]["id"], asteroidData[3]["id"]>> = <<3, 1, 2>>
    /\ Score(1) > Score(2)
    /\ Score(2) = Score(3)
    /\ responseBody[1] # responseBody[2]

\* C3 as stated: every field of a raw record, whatever its name, is present
\* with the identical value on the corresponding enriched record.
C3_RoundTripAllFields ==
    Fetched =>
        \A k \in 1..Len(responseBody) :
            \A f \in DOMAIN responseBody[k] :
                /\ f \in DOMAIN asteroidData[OutputOf(k)]
                /\ asteroidData[OutputOf(k)][f] = responseBody[k][f]

\* C3 amended: every field of a raw record other than impact, torino_scale and
\* importance_score is present with the identical value on the corresponding
\* enriched record; those three always hold the derived values.
C3_RoundTripRawFields ==
    Fetched =>
        \A k \in 1..Len(responseBody) :
            LET raw == responseBody[k]
                out == asteroidData[OutputOf(k)]
                d   == Num(raw, "estimated_diameter_km_max")
                v   == Num(raw, "relative_velocity_km_s")
                e   == calculateImpactEnergy(d, v)
                pha == Truthy(raw, "is_potentially_hazardous_asteroid")
                sen == Truthy(raw, "is_sentry_object")
            IN  /\ \A f \in (DOMAIN raw) \ DerivedFields :
                      f \in DOMAIN out /\ out[f] = raw[f]
                /\ DerivedFields \subseteq DOMAIN out
                /\ out["impact"].energy_megatons = e
                /\ out["impact"].crater_km = calculateCraterSize(d, v)
                /\ out["impact"].risk_zones = generateRiskZones(e, pha, sen)
                /\ out["torino_scale"] = calculateTorinoScale(d, e, pha, sen)
                /\ out["importance_score"] =
                       calculateImportanceScore(d, v, Num(raw, "miss_distance_au"), pha, sen)

\* a raw record carrying the derived names was enriched
C3_Witness ==
    /\ Fetched
    /\ \E k \in 1..Len(responseBody) :
          /\ DerivedFields \subseteq DOMAIN responseBody[k]
          /\ asteroidData[OutputOf(k)]["importance_score"] # responseBody[k]["importance_score"]
          /\ asteroidData[OutputOf(k)]["miss_distance_au"] = responseBody[k]["miss_distance_au"]

----------------------------------------------------------------------------
(* Properties of the estimators *)

TorinoCalled == callResult.fn = "calculateTorinoScale"

RiskZonesCalled == callResult.fn = "generateRiskZones"

ImportanceCalled == callResult.fn = "calculateImportanceScore"

\* C4: calculateTorinoScale follows the decision table, first match wins, the
\* sentry flag before the hazardous flag, and its result is an integer in 0..10.
C4_TorinoDecisionTable ==
    TorinoCalled =>
        LET d == callArgs.diameterKm
            e == callArgs.energyMegatons
            t == callResult.value
        IN  /\ t \in 0..10
            /\ callArgs.isSentry =>
                  /\ Gt(e, 1000000) => t = 10
                  /\ (Gt(e, 100000) /\ ~Gt(e, 1000000)) => t = 9
                  /\ (Gt(e, 10000) /\ ~Gt(e, 100000)) => t = 8
                  /\ (Gt(e, 1000) /\ ~Gt(e, 10000)) => t = 7
                  /\ (~Gt(e, 1000) /\ Gt(d, 10)) => t = 4
                  /\ (~Gt(e, 1000) /\ ~Gt(d, 10)) => t = 3
            /\ (~callArgs.isSentry /\ callArgs.isPHA) =>
                  /\ Gt(e, 100000) => t = 3
                  /\ (~Gt(e, 100000) /\ Gt(d, 10)) => t = 2
                  /\ (~Gt(e, 100000) /\ ~Gt(d, 10)) => t = 1
            /\ (~callArgs.isSentry /\ ~callArgs.isPHA) => t = 0

\* both flags set and an energy the hazardous branch would rate 3
C4_Witness ==
    /\ TorinoCalled
    /\ callArgs.isSentry
    /\ callArgs.isPHA
    /\ callArgs.energyMegatons = 1000001
    /\ callResult.value = 10

\* C5: the comparisons are strict: an energy or diameter equal to a threshold
\* is classified in the next lower bracket.
C5_StrictThresholds ==
    TorinoCalled =>
        LET d == callArgs.diameterKm
            e == callArgs.energyMegatons
            t == callResult.value
        IN  /\ callArgs.isSentry =>
                  /\ e = 1000000 => t = 9
                  /\ e = 100000 => t = 8
                  /\ e = 10000 => t = 7
                  /\ (e = 1000 /\ ~IsNaN(d) /\ d <= 10) => t = 3
                  /\ (e = 1000 /\ Gt(d, 10)) => t = 4
                  /\ (~Gt(e, 1000) /\ d = 10) => t = 3
            /\ (~callArgs.isSentry /\ callArgs.isPHA) =>
                  /\ (e = 100000 /\ d = 10) => t = 1
                  /\ (e = 100000 /\ Gt(d, 10)) => t = 2
                  /\ (~Gt(e, 100000) /\ d = 10) => t = 1

\* a hazardous body with energy exactly 1e5 Mt and diameter exactly 1 km
C5_Witness ==
    /\ TorinoCalled
    /\ ~callArgs.isSentry
    /\ callArgs.isPHA
    /\ callArgs.energyMegatons = 100000
    /\ callArgs.diameterKm = 10
    /\ callResult.value = 1

\* C6: for fixed diameter and flags calculateTorinoScale is monotonically
\* non-decreasing in energy.
C6_TorinoMonotoneInEnergy ==
    TorinoCalled =>
        \A e2 \in EnergyArgs :
            (~IsNaN(callArgs.energyMegatons) /\ ~IsNaN(e2)
                /\ callArgs.energyMegatons <= e2) =>
            callResult.value <=
                calculateTorinoScale(callArgs.diameterKm, e2, callArgs.isPHA,
                                     callArgs.isSentry)

\* an energy exactly on a threshold whose next value is rated strictly higher
C6_Witness ==
    /\ TorinoCalled
    /\ callArgs.isSentry
    /\ callArgs.energyMegatons = 100000
    /\ callResult.value = 8
    /\ calculateTorinoScale(callArgs.diameterKm, 100001, callArgs.isPHA,
                            callArgs.isSentry) = 9

\* C7: calculateImportanceScore never returns a value above 10 or below 0.
C7_ImportanceWithinRange ==
    ImportanceCalled => (callResult.value >= 0 /\ callResult.value <= 10)

\* diameter 1e6 km, velocity 1e6 km/s, miss distance 0, both flags: the sum 11
\* is returned as 10
C7_Witness ==
    /\ ImportanceCalled
    /\ callArgs.diameterKm = 10000000
    /\ callArgs.velocityKmS = 1000000
    /\ callArgs.missDistanceAU = 0
    /\ callArgs.isSentry
    /\ callArgs.isPHA
    /\ callResult.value = 10

\* C8: calculateImportanceScore = min(10, D + V + P + F) with D in 1..4 by
\* diameter, V in 0..2 by velocity, P in 0..2 by miss distance and F = 3 for a
\* sentry object, else 2 for a hazardous one, else 0.
C8_ImportanceFormula ==
    ImportanceCalled =>
        LET D == IF Gt(callArgs.diameterKm, 100) THEN 4
                 ELSE IF Gt(callArgs.diameterKm, 10) THEN 3
                 ELSE IF Gt(callArgs.diameterKm, 5) THEN 2 ELSE 1
            V == IF Gt(callArgs.velocityKmS, 25) THEN 2
                 ELSE IF Gt(callArgs.velocityKmS, 15) THEN 1 ELSE 0
            P == IF Lt(callArgs.missDistanceAU, 5) THEN 2
                 ELSE IF Lt(callArgs.missDistanceAU, 20) THEN 1 ELSE 0
            F == IF callArgs.isSentry THEN 3 ELSE IF callArgs.isPHA THEN 2 ELSE 0
        IN  callResult.value = Min(10, D + V + P + F)

\* both flags set on a small, slow, distant body: 1 + 0 + 0 + 3
C8_Witness ==
    /\ ImportanceCalled
    /\ callArgs.isSentry
    /\ callArgs.isPHA
    /\ callArgs.diameterKm = 5
    /\ callArgs.velocityKmS = 15
    /\ callArgs.missDistanceAU = 20
    /\ callResult.value = 4

\* C9: generateRiskZones returns a non-empty list for every energy and every
\* combination of flags, so every enriched record has a non-empty
\* impact.risk_zones.
C9_RiskZonesNonEmpty ==
    /\ RiskZonesCalled => Len(callResult.value) >= 1
    /\ \A raw \in RawPool : Len(EnrichAsteroid(raw)["impact"].risk_zones) >= 1

\* an energy below every threshold
C9_Witness ==
    /\ RiskZonesCalled
    /\ callArgs.energyMegatons = 0
    /\ callResult.value = <<"Remote Ocean">>

RiskZoneLists ==
    { <<"Global Extinction Event", "Mass Extinction Event", "Global Devastation">>,
      <<"Continental Devastation", "Global Impact", "Multiple Continents">>,
      <<"Regional Damage", "Pacific Ocean", "Atlantic Ocean", "Indian Ocean">>,
      <<"Pacific Ocean", "Coastal Japan", "Western Pacific">>,
      <<"Remote Ocean", "Central Pacific", "North Atlantic">>,
      <<"Remote Ocean">> }

\* C10: generateRiskZones returns exactly one of the six fixed lists, chosen by
\* the strict thresholds 100000 / 10000 / 1000 / 100 / 10; an energy equal to a
\* threshold falls in the lower bracket.
C10_RiskZonesBrackets ==
    RiskZonesCalled =>
        LET e == callArgs.energyMegatons
            z == callResult.value
        IN  /\ z \in RiskZoneLists
            /\ Gt(e, 100000) =>
                  z = <<"Global Extinction Event", "Mass Extinction Event",
                        "Global Devastation">>
            /\ (Gt(e, 10000) /\ ~Gt(e, 100000)) =>
                  z = <<"Continental Devastation", "Global Impact", "Multiple Continents">>
            /\ (Gt(e, 1000) /\ ~Gt(e, 10000)) =>
                  z = <<"Regional Damage", "Pacific Ocean", "Atlantic Ocean",
                        "Indian Ocean">>
            /\ (Gt(e, 100) /\ ~Gt(e, 1000)) =>
                  z = <<"Pacific Ocean", "Coastal Japan", "Western Pacific">>
            /\ (Gt(e, 10) /\ ~Gt(e, 100)) =>
                  z = <<"Remote Ocean", "Central Pacific", "North Atlantic">>
            /\ ~Gt(e, 10) => z = <<"Remote Ocean">>

\* an energy exactly on the highest threshold gets the second list
C10_Witness ==
    /\ RiskZonesCalled
    /\ callArgs.energyMegatons = 100000
    /\ callResult.value = <<"Continental Devastation", "Global Impact", "Multiple Continents">>

\* C11: generateRiskZones does not depend on its flags: for every energy the
\* result is the same for all four combinations of isPHA and isSentry.
C11_RiskZonesIgnoreFlags ==
    RiskZonesCalled =>
        \A pha \in BOOLEAN, sentry \in BOOLEAN :
            generateRiskZones(callArgs.energyMegatons, pha, sentry) = callResult.value

\* a sentry and hazardous body of low energy gets the list of a plain one
C11_Witness ==
    /\ RiskZonesCalled
    /\ callArgs.isPHA
    /\ callArgs.isSentry
    /\ callArgs.energyMegatons = 11
    /\ callResult.value = generateRiskZones(11, FALSE, FALSE)
    /\ callResult.value = <<"Remote Ocean", "Central Pacific", "North Atlantic">>

ImpactEnergyCalled == callResult.fn = "calculateImpactEnergy"

CraterSizeCalled == callResult.fn = "calculateCraterSize"

\* a finite non-negative double
FiniteNonNegative(x) == ~IsNaN(x) /\ x >= 0 /\ x # Infinity

\* C12: calculateImpactEnergy returns exactly 0 whenever the diameter or the
\* velocity is 0 and the other argument is finite and non-negative, and a
\* non-negative result for all non-negative arguments.
C12_ZeroEnergyForZeroInput ==
    (ImpactEnergyCalled /\ FiniteNonNegative(callArgs.diameterKm)
                        /\ FiniteNonNegative(callArgs.velocityKmS)) =>
        /\ (callArgs.diameterKm = 0 \/ callArgs.velocityKmS = 0) => callResult.value = 0
        /\ Ge(callResult.value, 0)

\* C13 as stated: calculateImpactEnergy(1.0, 20.0) is 3.1329e5 megatons to
\* within half a percent.
C13_EnergyFixtureAsStated ==
    (ImpactEnergyCalled /\ callArgs.diameterKm = 10 /\ callArgs.velocityKmS = 20) =>
        (callResult.value >= 311724 /\ callResult.value <= 314856)

\* C13 amended: calculateImpactEnergy(1.0, 20.0) is 6.2572e4 megatons (62571.56
\* rounded up to the next megaton).
C13_EnergyFixture ==
    (ImpactEnergyCalled /\ callArgs.diameterKm = 10 /\ callArgs.velocityKmS = 20) =>
        callResult.value = 62572

\* the function was called on a body of 1 km at 20 km/s
C13_Witness ==
    /\ ImpactEnergyCalled
    /\ callArgs.diameterKm = 10
    /\ callArgs.velocityKmS = 20
    /\ Gt(callResult.value, 0)

\* C14: calculateCraterSize returns 0 when the velocity is 0 (for any finite
\* diameter) and when the diameter is 0 (for any finite non-negative velocity),
\* and is non-negative for all non-negative arguments.
C14_ZeroCraterForZeroInput ==
    CraterSizeCalled =>
        /\ (callArgs.velocityKmS = 0 /\ ~IsNaN(callArgs.diameterKm)
                /\ callArgs.diameterKm # Infinity) => callResult.value = 0
        /\ (callArgs.diameterKm = 0 /\ FiniteNonNegative(callArgs.velocityKmS)) =>
               callResult.value = 0
        /\ (FiniteNonNegative(callArgs.diameterKm)
                /\ FiniteNonNegative(callArgs.velocityKmS)) => Ge(callResult.value, 0)

\* a raw record whose diameter or velocity is absent, NaN or negative
InvalidRaw(raw) ==
    LET diameterKm == Num(raw, "estimated_diameter_km_max")
        velocityKmS == Num(raw, "relative_velocity_km_s")
    IN  \/ IsNaN(diameterKm) \/ IsNaN(velocityKmS)
        \/ diameterKm < 0 \/ velocityKmS < 0

\* C15: a raw record whose diameter or velocity is absent, NaN or negative
\* makes the pipeline fail with a validation error: the fetch ends with an
\* error message and no enriched record is stored.
C15_InvalidRecordRejected ==
    (fetchPc = "done" /\ \E k \in DOMAIN responseBody : InvalidRaw(responseBody[k])) =>
        (loadError # Null /\ asteroidData = <<>>)


GetAsteroidsDataCalled == callResult.fn = "getAsteroidsData"

\* C17: getAsteroidsData never rejects.  On success it resolves with error
\* null and the response body as data; on a failure it resolves with data null
\* and an error string: the detail field of the body if the server answered
\* and the field is present, else 'Server Error (<status>)'; 'No response
\* received from server' if no answer came; the message of the exception if
\* the request could not be set up.
C17_ResolvesWithDataOrErrorString ==
    GetAsteroidsDataCalled =>
        LET result == callResult.value
            e == callArgs.value
        IN  /\ result.settled = "resolved"
            /\ callArgs.fulfilled => (result.error = JsNull /\ result.data = e.data)
            /\ ~callArgs.fulfilled =>
                  /\ result.data = JsNull
                  /\ result.error.type = "string"
                  /\ result.error =
                        IF "response" \in DOMAIN e THEN
                            IF "detail" \in DOMAIN e["response"].data
                            THEN e["response"].data["detail"]
                            ELSE JsString("Server Error ("
                                              \o ToString(e["response"].status) \o ")")
                        ELSE IF "request" \in DOMAIN e THEN
                            JsString("No response received from server")
                        ELSE JsString(e["message"])

----------------------------------------------------------------------------
(* Properties of the fetch life cycle and of the dashboard state *)

\* the response was a list holding something that is no record
BodyHoldsNoRecord == \E k \in DOMAIN responseBody : DOMAIN responseBody[k] = {}

\* C16: when the fetch fails for any reason (network failure, non-2xx status,
\* a body that is not JSON, JSON that is not a list of records) it ends with a
\* message in loadError, asteroidData empty and maxAsteroids 0.
C16_FailureLeavesNoData ==
    (fetchPc = "done" /\ (loadError # Null \/ BodyHoldsNoRecord)) =>
        (loadError \in FetchErrors /\ asteroidData = <<>> /\ maxAsteroids = 0)

\* C18: once App is unmounted a completing fetch updates no state: none of
\* asteroidData, maxAsteroids, loadError, isLoadingAsteroids is written.
C18_NoStateUpdateAfterUnmount ==
    [][~mounted =>
          UNCHANGED <<asteroidData, maxAsteroids, loadError, isLoadingAsteroids>>]_vars

\* C19: within one mount at most one asteroid request is sent and at most one
\* is in flight, and after a failure none is sent again.
C19_SingleRequestPerMount ==
    /\ requestsIssued <= 1
    /\ requestsInFlight <= 1
    /\ (fetchPc = "done" /\ loadError # Null) => (requestsIssued = 1 /\ requestsInFlight = 0)

\* the request failed and a later step was taken with the error on screen
C19_Witness ==
    /\ fetchPc = "done"
    /\ loadError \in FetchErrors
    /\ requestsIssued = 1
    /\ requestsInFlight = 0
    /\ ~mounted

\* C20: asteroidData changes only when a fetch completes, and then to the
\* ranked enriched list of the response or to the empty list; the slider, the
\* orbit toggle, hover, select and deselect and the report buttons leave it as
\* it is.
C20_DataReplacedOnlyByFetch ==
    [][asteroidData' # asteroidData =>
          /\ fetchPc = "awaiting"
          /\ fetchPc' = "done"
          /\ asteroidData' = IF loadError' = Null THEN EnrichAndRank(responseBody')
                             ELSE <<>>]_vars

\* every control has been used and the list is the one the fetch stored
C20_Witness ==
    /\ Len(asteroidData) = 2
    /\ asteroidData = EnrichAndRank(responseBody)
    /\ maxAsteroids = 1
    /\ ~showOrbits
    /\ hoveredAsteroid # None
    /\ selectedAsteroid = None
    /\ isGeneratingReport
    /\ "id" \in DOMAIN asteroidData[1]
    /\ reportRequests = << <<asteroidData[1]["id"]>> >>

\* C21: the visible asteroids are the first maxAsteroids records of the ranked
\* list, so at every slider position every visible asteroid has an
\* importance_score at least that of every asteroid that is not visible.
C21_VisibleArePrefix ==
    Fetched =>
        /\ Len(visibleAsteroids) = maxAsteroids
        /\ \A i \in 1..Len(visibleAsteroids) :
              /\ visibleAsteroids[i] = asteroidData[i]
              /\ \A j \in (maxAsteroids + 1)..Len(asteroidData) :
                    visibleAsteroids[i]["importance_score"] >= Score(j)

\* the slider hides the last of three records, which has a lower score than
\* the two shown
C21_Witness ==
    /\ Fetched
    /\ Len(asteroidData) = 3
    /\ maxAsteroids = 2
    /\ Len(visibleAsteroids) = 2
    /\ Score(2) > Score(3)

\* C22: the importance_score of every enriched record lies in 1..10; it is
\* never 0, because the diameter bracket adds at least 1.
C22_StoredScoreAtLeastOne ==
    Fetched =>
        \A i \in 1..Len(asteroidData) : Score(i) >= 1 /\ Score(i) <= 10

\* a small, slow, distant body without flags is stored with score 1, next to
\* a record whose raw importance_score of 0 was replaced and a body capped at 10
C22_Witness ==
    /\ Fetched
    /\ \E i \in 1..Len(asteroidData) : Score(i) = 1
    /\ \E i \in 1..Len(asteroidData) : Score(i) = 10
    /\ \E k \in 1..Len(responseBody) :
          /\ "importance_score" \in DOMAIN responseBody[k]
          /\ responseBody[k]["importance_score"] = 0

\* C30: whenever loading has finished 0 <= maxAsteroids <= asteroidData.length:
\* after a failed fetch both are 0, and with a non-empty list the slider keeps
\* maxAsteroids within 1..asteroidData.length.
C30_MaxAsteroidsWithinList ==
    ~isLoadingAsteroids =>
        /\ maxAsteroids >= 0
        /\ maxAsteroids <= Len(asteroidData)
        /\ loadError # Null => (maxAsteroids = 0 /\ Len(asteroidData) = 0)
        /\ Len(asteroidData) > 0 => maxAsteroids >= 1

\* the slider was moved below the length the successful fetch had set
C30_Witness ==
    /\ ~isLoadingAsteroids
    /\ loadError = Null
    /\ Len(asteroidData) = 2
    /\ maxAsteroids = 1

----------------------------------------------------------------------------
(* Properties of the ring layout and of the scene *)

\* C23: after recreateAsteroids no ring index is assigned to more than 5
\* visible asteroids, every visible asteroid has a ring index that exists in
\* the ring list and has its mesh on that ring (none is skipped), and the
\* rings are 12 units apart starting at distance 15.
C23_RingCapacityAndSpacing ==
    isInitialized =>
        LET rings == calculateDynamicRings(visibleAsteroids) IN
        /\ \A r \in 0..(Len(rings) - 1) :
              Cardinality({ i \in 1..Len(visibleAsteroids) :
                              RingIndex(visibleAsteroids, i) = r }) <= 5
        /\ \A i \in 1..Len(visibleAsteroids) :
              /\ RingIndex(visibleAsteroids, i) \in 0..(Len(rings) - 1)
              /\ \E id \in DOMAIN asteroidMeshes :
                    /\ asteroidMeshes[id].userData = visibleAsteroids[i]
                    /\ asteroidMeshes[id].orbitRing = RingIndex(visibleAsteroids, i)
        /\ \A k \in 1..Len(rings) : rings[k].distance = 15 + 12 * (k - 1)

\* six critical asteroids: the sixth is on the second ring, at distance 27
C23_Witness ==
    /\ isInitialized
    /\ Len(visibleAsteroids) = 6
    /\ Cardinality(criticalAsteroids(visibleAsteroids)) = 6
    /\ \E id \in DOMAIN asteroidMeshes :
          asteroidMeshes[id].orbitRing = 1 /\ asteroidMeshes[id].orbitRadius = 27

\* the class of the asteroid at position i of the visible list
ClassOf(visible, i) ==
    IF i \in criticalAsteroids(visible) THEN "critical"
    ELSE IF i \in hazardousAsteroids(visible) THEN "hazardous" ELSE "regular"

\* C27: the three classes partition the visible asteroids, and every asteroid
\* is placed on a ring whose type equals its class, for every mix of classes.
C27_RingTypeEqualsClass ==
    isInitialized =>
        LET rings == calculateDynamicRings(visibleAsteroids)
            critical == criticalAsteroids(visibleAsteroids)
            hazardous == hazardousAsteroids(visibleAsteroids)
            regular == regularAsteroids(visibleAsteroids)
        IN  /\ critical \cup hazardous \cup regular = 1..Len(visibleAsteroids)
            /\ critical \cap hazardous = {}
            /\ critical \cap regular = {}
            /\ hazardous \cap regular = {}
            /\ \A i \in 1..Len(visibleAsteroids) :
                  /\ HasRing(visibleAsteroids, i)
                  /\ rings[RingIndex(visibleAsteroids, i) + 1].type
                        = ClassOf(visibleAsteroids, i)

\* C28: once the effects have run the scene holds exactly one orbit-ring mesh
\* per computed ring when showOrbits is on and none when it is off, whatever
\* toggles and slider changes came before.
C28_OneOrbitRingPerRing ==
    isInitialized =>
        LET rings == calculateDynamicRings(visibleAsteroids) IN
        IF showOrbits THEN
            /\ Len(orbitRings) = Len(rings)
            /\ \A k \in 1..Len(rings) :
                  Cardinality({ m \in 1..Len(orbitRings) :
                                  /\ orbitRings[m].ringIndex = k - 1
                                  /\ orbitRings[m].ringType = rings[k].type
                                  /\ orbitRings[m].distance = rings[k].distance }) = 1
        ELSE orbitRings = <<>>

\* the slider went from a list that needs three rings to one asteroid, with
\* showOrbits on: the two ring meshes of that layout are left
C28_Witness ==
    /\ isInitialized
    /\ showOrbits
    /\ Len(calculateDynamicRings(asteroidData)) = 3
    /\ maxAsteroids = 1
    /\ Len(orbitRings) = 2

\* C29: the scene holds at most one impact trajectory, one is present exactly
\* when an asteroid is selected, it belongs to the selected asteroid, and the
\* selected asteroid is one of the visible asteroids.
C29_TrajectoryOfVisibleSelection ==
    /\ Len(currentImpactTrajectory) <= 1
    /\ (currentImpactTrajectory # None) <=> (selectedAsteroid # None)
    /\ selectedAsteroid # None =>
          /\ currentImpactTrajectory[1].target = selectedAsteroid[1]
          /\ \E i \in 1..Len(visibleAsteroids) : visibleAsteroids[i] = selectedAsteroid[1]

----------------------------------------------------------------------------
(* Properties of the report requests and of the loading flag *)

\* C24: a report request sent while nothing is selected carries the ids of
\* the visible asteroids in their order; one sent while an asteroid is
\* selected carries the id of that asteroid only.
C24_ReportCarriesIds ==
    [][Len(reportRequests') > Len(reportRequests) =>
          reportRequests'[Len(reportRequests')] =
              IF selectedAsteroid = None
              THEN [i \in 1..Len(visibleAsteroids) |-> Num(visibleAsteroids[i], "id")]
              ELSE <<Num(selectedAsteroid[1], "id")>>]_vars

\* of two records the slider shows the first, which was second in the
\* response; the request in flight carries its id only
C24_Witness ==
    /\ selectedAsteroid = None
    /\ Len(asteroidData) = 2
    /\ maxAsteroids = 1
    /\ "id" \in DOMAIN asteroidData[1]
    /\ asteroidData[1]["id"] = 2
    /\ reportRequests = << <<2>> >>

\* C25: isLoadingAsteroids is true from mount until the fetch settles, false
\* as soon as it has settled on any path, and never true again afterwards.
C25_LoadingUntilSettled ==
    /\ [](isLoadingAsteroids <=> fetchPc # "done")
    /\ [][~isLoadingAsteroids => ~isLoadingAsteroids']_vars

\* the body was not JSON: loading has ended with the parse error on screen
C25_Witness ==
    /\ mounted
    /\ fetchPc = "done"
    /\ ~isLoadingAsteroids
    /\ loadError = "Unexpected token < in JSON at position 0"

\* C26: at most one report request is in flight across both buttons, and
\* isGeneratingReport is true exactly while one is in flight.
C26_OneReportInFlight ==
    /\ Len(reportRequests) <= 1
    /\ isGeneratingReport <=> reportRequests # <<>>

\* a report of both visible asteroids is in flight and an asteroid has been
\* selected meanwhile
C26_Witness ==
    /\ isGeneratingReport
    /\ Len(reportRequests) = 1
    /\ Len(reportRequests[1]) = 2
    /\ selectedAsteroid # None

====
